---- MODULE Spec2Model ----
(***************************************************************************)
(* Model of the virtio sound driver: device bring-up (SoundDevice::init),  *)
(* the synchronous control transaction (SoundDevice::send), the lifecycle  *)
(* driver (SoundDevice::test_device), the event interrupt handler          *)
(* (SoundDevice::handle_event_irq) and the configuration reader            *)
(* (ConfigManager<VirtioSoundConfig>::read_config).                        *)
(***************************************************************************)
EXTENDS Integers, Sequences, FiniteSets, TLC

(***************************************************************************)
(* Wire format: #[repr(C)] layout, little-endian integers.                 *)
(***************************************************************************)

Field(n, s, a) == [name |-> n, size |-> s, align |-> a]

VirtioSoundConfig ==
    << Field("jacks", 4, 4), Field("streams", 4, 4),
       Field("chmaps", 4, 4), Field("controls", 4, 4) >>

SndPcmQueryInfo ==
    << Field("hdr", 4, 4), Field("start_id", 4, 4),
       Field("count", 4, 4), Field("size", 4, 4) >>

SndPcmInfo ==
    << Field("hdr", 4, 4), Field("features", 4, 4),
       Field("formats", 8, 8), Field("rates", 8, 8),
       Field("direction", 1, 1), Field("channels_min", 1, 1),
       Field("channels_max", 1, 1), Field("padding", 5, 1) >>

\* a SetParams record declared with a single padding byte
SndPcmSetParams_OnePad ==
    << Field("hdr", 4, 4), Field("buffer_bytes", 4, 4),
       Field("period_bytes", 4, 4), Field("features", 4, 4),
       Field("channels", 1, 1), Field("format", 1, 1),
       Field("rate", 1, 1), Field("padding", 1, 1) >>

SndPcmSetParams ==
    << Field("hdr", 4, 4), Field("buffer_bytes", 4, 4),
       Field("period_bytes", 4, 4), Field("features", 4, 4),
       Field("channels", 1, 1), Field("format", 1, 1),
       Field("rate", 1, 1), Field("padding", 5, 1) >>

SndPcmHdr ==
    << Field("hdr", 4, 4), Field("stream_id", 4, 4) >>

SndPcmIOMessage ==
    << Field("stream_id", 4, 4), Field("buffer", 1, 1) >>

AlignUp(n, a) == ((n + a - 1) \div a) * a

RECURSIVE EndOf(_, _)
\* the offset just past the first k fields of a repr(C) struct
EndOf(layout, k) ==
    IF k = 0 THEN 0
    ELSE AlignUp(EndOf(layout, k - 1), layout[k].align) + layout[k].size

FieldIndex(layout, name) ==
    CHOOSE i \in 1..Len(layout) : layout[i].name = name

\* offset_of!(T, field)
OffsetOf(layout, name) ==
    LET i == FieldIndex(layout, name)
    IN  AlignUp(EndOf(layout, i - 1), layout[i].align)

StructAlign(layout) ==
    CHOOSE a \in {layout[i].align : i \in 1..Len(layout)} :
        \A j \in 1..Len(layout) : layout[j].align <= a

\* size_of::<T>()
SizeOf(layout) == AlignUp(EndOf(layout, Len(layout)), StructAlign(layout))

PCM_HDR_SIZE == SizeOf(SndPcmHdr)
PCM_SET_PARAMS_SIZE == SizeOf(SndPcmSetParams)
PCM_INFO_QUERY_SIZE == SizeOf(SndPcmQueryInfo)
PCM_INFO_SIZE == SizeOf(SndPcmInfo)

RECURSIVE ToLeBytes(_, _)
\* the n little-endian bytes of v
ToLeBytes(v, n) ==
    IF n = 0 THEN << >> ELSE << v % 256 >> \o ToLeBytes(v \div 256, n - 1)

RECURSIVE FromLeBytes(_)
\* the integer a little-endian byte string encodes
FromLeBytes(bytes) ==
    IF bytes = << >> THEN 0 ELSE Head(bytes) + 256 * FromLeBytes(Tail(bytes))

\* n zero bytes
ZeroBytes(n) == [i \in 1..n |-> 0]

RECURSIVE FieldBytes(_, _, _)
\* the bytes of the first k fields of a Pod value: each field at its offset,
\* the padding before it zero
FieldBytes(layout, val, k) ==
    IF k = 0 THEN << >>
    ELSE LET prev == FieldBytes(layout, val, k - 1)
             off == AlignUp(Len(prev), layout[k].align)
         IN  prev \o SubSeq(ZeroBytes(off), Len(prev) + 1, off)
                  \o ToLeBytes(val[layout[k].name], layout[k].size)

\* the bytes of a Pod value, trailing padding included
PodBytes(layout, val) ==
    LET fields == FieldBytes(layout, val, Len(layout))
    IN  fields \o SubSeq(ZeroBytes(SizeOf(layout)), Len(fields) + 1, SizeOf(layout))

(***************************************************************************)
(* Enumerations: a C-like enum is a list of variants, each with its        *)
(* explicit discriminant or -1 when it follows the previous one.           *)
(***************************************************************************)

MessageHdrDecl ==
    << <<"JackInfo", 1>>, <<"JackRemap", -1>>,
       <<"PcmInfo", 256>>, <<"PcmSetParams", -1>>, <<"PcmPrepare", -1>>,
       <<"PcmRelease", -1>>, <<"PcmStart", -1>>, <<"PcmStop", -1>>,
       <<"ChmapInfo", 512>>,
       <<"CtlInfo", 768>>, <<"CtlEnumItems", -1>>, <<"CtlRead", -1>>,
       <<"CtlWrite", -1>>, <<"CtlTlvRead", -1>>, <<"CtlTlvWrite", -1>>,
       <<"CtlTlvCommand", -1>>,
       <<"JackConnected", 4096>>, <<"JackDisconnected", -1>>,
       <<"PcmPeriodElapsed", 4352>>, <<"PcmXrun", -1>>,
       <<"CtlNotify", 4608>>,
       <<"Ok", 32768>>, <<"BadMsg", -1>>, <<"NotSupp", -1>>, <<"IoErr", -1>> >>

PcmFormatsDecl ==
    << <<"FmtImaAdpcm", 0>>, <<"FmtMuLaw", -1>>, <<"FmtALaw", -1>>,
       <<"FmtS8", -1>>, <<"FmtU8", -1>>, <<"FmtS16", -1>>, <<"FmtU16", -1>>,
       <<"FmtS18_3", -1>>, <<"FmtU18_3", -1>>, <<"FmtS20_3", -1>>,
       <<"FmtU20_3", -1>>, <<"FmtS24_3", -1>>, <<"FmtU24_3", -1>>,
       <<"FmtS20", -1>>, <<"FmtU20", -1>>, <<"FmtS24", -1>>, <<"FmtU24", -1>>,
       <<"FmtS32", -1>>, <<"FmtU32", -1>>, <<"FmtFloat", -1>>,
       <<"FmtFloat64", -1>>, <<"FmtDsdU8", -1>>, <<"FmtDsdU16", -1>>,
       <<"FmtDsdU32", -1>>, <<"FmtIec958Subframe", -1>> >>

PcmFrameRatesDecl ==
    << <<"Rate5512", 0>>, <<"Rate8000", -1>>, <<"Rate11025", -1>>,
       <<"Rate16000", -1>>, <<"Rate22050", -1>>, <<"Rate32000", -1>>,
       <<"Rate44100", -1>>, <<"Rate48000", -1>>, <<"Rate64000", -1>>,
       <<"Rate88200", -1>>, <<"Rate96000", -1>>, <<"Rate176400", -1>>,
       <<"Rate192000", -1>>, <<"Rate384000", -1>> >>

RECURSIVE Discriminant(_, _)
\* the value of the i-th variant
Discriminant(decl, i) ==
    IF decl[i][2] >= 0 THEN decl[i][2]
    ELSE IF i = 1 THEN 0
    ELSE Discriminant(decl, i - 1) + 1

\* `Enum::Variant as u32`
EnumValue(decl, name) ==
    Discriminant(decl, CHOOSE i \in 1..Len(decl) : decl[i][1] = name)

MessageHdr ==
    [n \in {MessageHdrDecl[i][1] : i \in 1..Len(MessageHdrDecl)} |->
        EnumValue(MessageHdrDecl, n)]

\* the status codes
Ok == MessageHdr["Ok"]
BadMsg == MessageHdr["BadMsg"]
NotSupp == MessageHdr["NotSupp"]
IoErr == MessageHdr["IoErr"]

\* the codes of the control requests of a PCM stream, with their names
PcmRequestCodes ==
    { << n, MessageHdr[n] >> :
        n \in {"PcmInfo", "PcmSetParams", "PcmPrepare", "PcmRelease",
               "PcmStart", "PcmStop"} }


\* the request a message code names ("unknown" when none)
CodeName(code) ==
    IF \E e \in PcmRequestCodes : e[2] = code
    THEN (CHOOSE e \in PcmRequestCodes : e[2] = code)[1]
    ELSE "unknown"


(***************************************************************************)
(* The control requests of test_device, in program order.                  *)
(***************************************************************************)

Request(n, l, v, s, r) ==
    [name |-> n, layout |-> l, val |-> v, bytes |-> PodBytes(l, v),
     send_size |-> s, recv_size |-> r]

\* the literal 8 of `self.send(&req, .., 8, &mut queue)` and `sync(0..8)`
STATUS_RESP_SIZE == 8

StreamHdr(code) == [hdr |-> MessageHdr[code], stream_id |-> 0]

Requests ==
    << Request("PcmInfo", SndPcmQueryInfo,
               [hdr |-> MessageHdr["PcmInfo"], start_id |-> 0, count |-> 1,
                size |-> PCM_INFO_QUERY_SIZE],
               PCM_INFO_QUERY_SIZE, PCM_INFO_SIZE),
       Request("PcmSetParams", SndPcmSetParams,
               [hdr |-> MessageHdr["PcmSetParams"], buffer_bytes |-> 1,
                period_bytes |-> 1, features |-> 0, channels |-> 0,
                format |-> EnumValue(PcmFormatsDecl, "FmtU8"),
                rate |-> EnumValue(PcmFrameRatesDecl, "Rate16000"),
                padding |-> 0],
               PCM_SET_PARAMS_SIZE, STATUS_RESP_SIZE),
       Request("PcmPrepare", SndPcmHdr, StreamHdr("PcmPrepare"),
               PCM_HDR_SIZE, STATUS_RESP_SIZE),
       Request("PcmStart", SndPcmHdr, StreamHdr("PcmStart"),
               PCM_HDR_SIZE, STATUS_RESP_SIZE),
       Request("PcmStop", SndPcmHdr, StreamHdr("PcmStop"),
               PCM_HDR_SIZE, STATUS_RESP_SIZE),
       Request("PcmRelease", SndPcmHdr, StreamHdr("PcmRelease"),
               PCM_HDR_SIZE, STATUS_RESP_SIZE) >>

NumRequests == Len(Requests)

\* the bytes `write_val(0, data)` stores for the k-th request
RequestBytes(k) == Requests[k].bytes

(***************************************************************************)
(* Execution contexts.  "init" is the thread that runs SoundDevice::init   *)
(* and, from it, test_device; "other" is a second context that issues the  *)
(* same control transactions on the same device once it is initialised.    *)
(***************************************************************************)

Callers == {"init", "other"}
CPUs == {1, 2}
CpuOf == [c \in Callers |-> IF c = "init" THEN 1 ELSE 2]

NoOne == "free"

Q_INDEX == 0
TXQ_INDEX == 1
RXQ_INDEX == 2
QueueIndices == {Q_INDEX, TXQ_INDEX, RXQ_INDEX}
\* the size argument of VirtQueue::new
QUEUE_SIZE == 2

Regions == {"tx_buffer", "rx_buffer", "ctl_buffer", "event_buffer"}

\* the leading bytes of each DMA region that the model keeps track of: every
\* access of the driver lies within the largest record
Window == PCM_INFO_SIZE
Zeros == [b \in 1..Window |-> 0]

\* the byte offsets of the range off..off+len
Range(off, len) == {o \in 0..(Window - 1) : off <= o /\ o < off + len}

\* dst with the bytes of its range [off, off+len) replaced by those of src
CopyRange(dst, src, off, len) ==
    SubSeq(dst, 1, off) \o SubSeq(src, off + 1, off + len)
                       \o SubSeq(dst, off + len + 1, Len(dst))

\* dst with `bytes` stored at offset off
StoreAt(dst, off, bytes) ==
    SubSeq(dst, 1, off) \o bytes \o SubSeq(dst, off + Len(bytes) + 1, Len(dst))

VARIABLES
    pc,          \* each context's position
    stage,       \* which request of test_device a context is at (0: none)
    qlock,       \* holder of SoundDevice.queue's SpinLock
    tlock,       \* holder of SoundDevice.transport's SpinLock
    irqOff,      \* per CPU: local interrupts disabled by a disable_irq() guard
    vq,          \* the three virtqueues
    kicked,      \* the control queue's doorbell was rung and not yet served
    needNotify,  \* the device asks to be notified of new control buffers
    dma,         \* the four DMA regions: processor view and device view
    stream,      \* the device's state of PCM stream 0
    cfgMem,      \* device configuration memory
    config,      \* the last VirtioSoundConfig read (or "none")
    prevConfig,  \* the one read before it
    cfgReads,    \* offsets read by the last read_config
    cfgSame,     \* the device did not change between the last two reads
    cfgDirty,    \* the device changed since the last read
    nReads,      \* number of read_config calls so far
    initSteps,   \* the bring-up steps executed so far, in order
    failed,      \* the bring-up step that failed ("none")
    finishInits, \* number of finish_init calls
    initResult,  \* what init returned ("none" while it has not)
    hist,        \* per context: bookkeeping about its current transaction
    evTag,       \* which transaction's response each view of the event region holds
    irqLast      \* what the last handler run read, and what was in flight then

cfgVars == << cfgMem, config, prevConfig, cfgReads, cfgSame, cfgDirty, nReads >>
initVars == << initSteps, failed, finishInits, initResult, tlock >>
queueVars == << vq, kicked, needNotify >>
devVars == << stream >>
irqVars == << irqLast >>
vars == << pc, stage, qlock, tlock, irqOff, vq, kicked, needNotify, dma, stream,
           cfgMem, config, prevConfig, cfgReads, cfgSame, cfgDirty, nReads,
           initSteps, failed, finishInits, initResult, hist, evTag, irqLast >>


(***************************************************************************)
(* Initial state: nothing constructed, the device idle.                    *)
(***************************************************************************)

NoConfig == [valid |-> FALSE, jacks |-> 0, streams |-> 0, chmaps |-> 0, controls |-> 0]

\* configuration memory holding the given capability counts
CfgMemOf(j, s, m, k) ==
    ToLeBytes(j, 4) \o ToLeBytes(s, 4) \o ToLeBytes(m, 4) \o ToLeBytes(k, 4)

\* the configurations a device may expose: one stream only, four different
\* counts, their reverse, and counts that take more than one byte
AllCfgMem ==
    { CfgMemOf(0, 1, 0, 0), CfgMemOf(1, 2, 3, 4), CfgMemOf(4, 3, 2, 1),
      CfgMemOf(258, 0, 65536, 7) }

NoHist ==
    [txn |-> 0, written |-> {}, reqSynced |-> {}, evSynced |-> {}, evRead |-> {},
     hdr |-> 0, data |-> 0, consumed |-> << >>, answered |-> 0,
     gotTag |-> << NoOne, 0 >>, sendRet |-> "none", submitted |-> << >>,
     rejected |-> FALSE, advanced |-> FALSE, okRun |-> FALSE]

NoIrqRead == [region |-> "none", range |-> {}, inflight |-> {}]

NewQueue == [built |-> FALSE, size |-> 0, free |-> 0, avail |-> << >>, used |-> << >>]

InitCommon ==
    /\ pc = [c \in Callers |-> IF c = "init" THEN "i_read_config" ELSE "idle"]
    /\ stage = [c \in Callers |-> 0]
    /\ qlock = NoOne
    /\ tlock = NoOne
    /\ irqOff = [p \in CPUs |-> FALSE]
    /\ vq = [i \in QueueIndices |-> NewQueue]
    /\ kicked = FALSE
    /\ needNotify \in BOOLEAN
    /\ dma = [r \in Regions |->
                [mapped |-> FALSE, dir |-> "none", frames |-> 0,
                 cpu |-> Zeros, dev |-> Zeros]]
    /\ stream = "Uninitialized"
    /\ config = NoConfig
    /\ prevConfig = NoConfig
    /\ cfgReads = << >>
    /\ cfgSame = TRUE
    /\ cfgDirty = FALSE
    /\ nReads = 0
    /\ initSteps = << >>
    /\ failed = "none"
    /\ finishInits = 0
    /\ initResult = "none"
    /\ hist = [c \in Callers |-> NoHist]
    /\ evTag = [cpu |-> << NoOne, 0 >>, dev |-> << NoOne, 0 >>]
    /\ irqLast = NoIrqRead

Init ==
    /\ InitCommon
    /\ cfgMem = CfgMemOf(0, 1, 0, 0)

Panicked == \E c \in Callers : pc[c] = "panicked"

\* a context runs unless the kernel has panicked
Runnable(c) == ~Panicked

(***************************************************************************)
(* Config reader (config.rs).                                              *)
(***************************************************************************)

\* ConfigManager::read_once::<u32>(offset)
ReadOnce32(mem, off) == FromLeBytes(SubSeq(mem, off + 1, off + 4))

\* the fields in the order read_config reads them
ConfigFields == << "jacks", "streams", "chmaps", "controls" >>

\* a read_config that reads `streams` at the offset of `jacks`
ReadConfig_SameOffset(mem, failAt) ==
    LET off == [f \in {"jacks", "streams", "chmaps", "controls"} |->
                   IF f = "streams" THEN OffsetOf(VirtioSoundConfig, "jacks")
                   ELSE OffsetOf(VirtioSoundConfig, f)]
        n == IF failAt = 0 THEN Len(ConfigFields) ELSE failAt
    IN  [reads |-> [i \in 1..n |-> off[ConfigFields[i]]],
         ok |-> failAt = 0,
         value |-> [valid |-> TRUE,
                    jacks |-> ReadOnce32(mem, off["jacks"]),
                    streams |-> ReadOnce32(mem, off["streams"]),
                    chmaps |-> ReadOnce32(mem, off["chmaps"]),
                    controls |-> ReadOnce32(mem, off["controls"])]]

\* read_config: four reads, the failAt-th of which fails (0: none does);
\* `reads` are the offsets read, `value` the result when no read failed
ReadConfig(mem, failAt) ==
    LET off == [f \in {"jacks", "streams", "chmaps", "controls"} |->
                   OffsetOf(VirtioSoundConfig, f)]
        n == IF failAt = 0 THEN Len(ConfigFields) ELSE failAt
    IN  [reads |-> [i \in 1..n |-> off[ConfigFields[i]]],
         ok |-> failAt = 0,
         value |-> [valid |-> TRUE,
                    jacks |-> ReadOnce32(mem, off["jacks"]),
                    streams |-> ReadOnce32(mem, off["streams"]),
                    chmaps |-> ReadOnce32(mem, off["chmaps"]),
                    controls |-> ReadOnce32(mem, off["controls"])]]

\* the effect of one read_config call on the reader's bookkeeping
DoReadConfig(r) ==
    /\ cfgReads' = r.reads
    /\ nReads' = nReads + 1
    /\ config' = IF r.ok THEN r.value ELSE config
    /\ prevConfig' = IF r.ok THEN config ELSE prevConfig
    /\ cfgSame' = IF r.ok THEN ~cfgDirty ELSE cfgSame
    /\ cfgDirty' = IF r.ok THEN FALSE ELSE cfgDirty
    /\ cfgMem' = cfgMem

(***************************************************************************)
(* Bring-up: SoundDevice::init.                                            *)
(***************************************************************************)

\* the continuation of a fallible step that is not unwrapped
Unwrap_Ignored(ok, next) == next

\* `.unwrap()`: the next position, or a panic
Unwrap(ok, next) == IF ok THEN next ELSE "panicked"

\* one bring-up step of the init thread: it ran, and succeeded or not
InitStep(step, ok, next) ==
    /\ pc["init"] = step
    /\ Runnable("init")
    /\ pc' = [pc EXCEPT !["init"] = Unwrap(ok, next)]
    /\ initSteps' = Append(initSteps, step)
    /\ failed' = IF ok THEN failed ELSE step

\* lines 39-40
InitReadConfig ==
    \E failAt \in 0..Len(ConfigFields) :
        /\ InitStep("i_read_config", failAt = 0, "i_queue0")
        /\ DoReadConfig(ReadConfig(cfgMem, failAt))
        /\ UNCHANGED << stage, qlock, tlock, irqOff, queueVars, dma, devVars,
                        finishInits, initResult, hist, evTag, irqVars >>

QueueStep == [i \in QueueIndices |-> IF i = Q_INDEX THEN "i_queue0"
                                     ELSE IF i = TXQ_INDEX THEN "i_queue1"
                                     ELSE "i_queue2"]
AfterQueue == [i \in QueueIndices |-> IF i = Q_INDEX THEN "i_queue1"
                                      ELSE IF i = TXQ_INDEX THEN "i_queue2"
                                      ELSE "i_tx_buffer"]

\* lines 48-50: VirtQueue::new(index, 2, transport).unwrap()
InitQueue(i) ==
    \E ok \in BOOLEAN :
        /\ InitStep(QueueStep[i], ok, AfterQueue[i])
        /\ vq' = IF ok
                 THEN [vq EXCEPT ![i] = [built |-> TRUE, size |-> QUEUE_SIZE,
                                         free |-> QUEUE_SIZE,
                                         avail |-> << >>, used |-> << >>]]
                 ELSE vq
        /\ UNCHANGED << stage, qlock, tlock, irqOff, kicked, needNotify, dma,
                        devVars, cfgVars, finishInits, initResult, hist, evTag,
                        irqVars >>

\* the four regions in allocation order: frames and direction of each
DmaPlan ==
    << [region |-> "tx_buffer", frames |-> 4, dir |-> "ToDevice",
        step |-> "i_tx_buffer", next |-> "i_rx_buffer"],
       [region |-> "rx_buffer", frames |-> 4, dir |-> "FromDevice",
        step |-> "i_rx_buffer", next |-> "i_ctl_buffer"],
       [region |-> "ctl_buffer", frames |-> 100, dir |-> "ToDevice",
        step |-> "i_ctl_buffer", next |-> "i_event_buffer"],
       [region |-> "event_buffer", frames |-> 100, dir |-> "FromDevice",
        step |-> "i_event_buffer", next |-> "i_device"] >>

\* lines 53-71: alloc_segment(n).unwrap(), DmaStream::map(..).unwrap()
InitDma(k) ==
    \E ok \in BOOLEAN :
        LET d == DmaPlan[k] IN
        /\ InitStep(d.step, ok, d.next)
        /\ dma' = IF ok
                  THEN [dma EXCEPT ![d.region] =
                           [mapped |-> TRUE, dir |-> d.dir, frames |-> d.frames,
                            cpu |-> Zeros, dev |-> Zeros]]
                  ELSE dma
        /\ UNCHANGED << stage, qlock, tlock, irqOff, queueVars, devVars,
                        cfgVars, finishInits, initResult, hist, evTag, irqVars >>

\* lines 73-85: Arc::new(Self { .. })
InitDevice ==
    /\ InitStep("i_device", TRUE, "i_transport_lock")
    /\ UNCHANGED << stage, qlock, tlock, irqOff, queueVars, dma, devVars,
                    cfgVars, finishInits, initResult, hist, evTag, irqVars >>

\* line 89: device.transport.disable_irq().lock()
InitTransportLock ==
    /\ tlock = NoOne
    /\ InitStep("i_transport_lock", TRUE, "i_register")
    /\ tlock' = "init"
    /\ irqOff' = [irqOff EXCEPT ![CpuOf["init"]] = TRUE]
    /\ UNCHANGED << stage, qlock, queueVars, dma, devVars, cfgVars,
                    finishInits, initResult, hist, evTag, irqVars >>

\* lines 95-97: register_cfg_callback(..).unwrap()
InitRegister ==
    \E ok \in BOOLEAN :
        /\ InitStep("i_register", ok, "i_finish_init")
        /\ UNCHANGED << stage, qlock, tlock, irqOff, queueVars, dma, devVars,
                        cfgVars, finishInits, initResult, hist, evTag, irqVars >>

\* line 99: transport.finish_init()
InitFinish ==
    /\ InitStep("i_finish_init", TRUE, "i_drop_transport")
    /\ finishInits' = finishInits + 1
    /\ UNCHANGED << stage, qlock, tlock, irqOff, queueVars, dma, devVars,
                    cfgVars, initResult, hist, evTag, irqVars >>

\* an init that keeps the transport guard while it runs test_device
InitDrop_Keep ==
    /\ InitStep("i_drop_transport", TRUE, "td_disable_irq")
    /\ UNCHANGED << stage, qlock, tlock, irqOff, queueVars, dma, devVars, cfgVars,
                    finishInits, initResult, hist, evTag, irqVars >>

\* line 100: drop(transport)
InitDrop ==
    /\ InitStep("i_drop_transport", TRUE, "td_disable_irq")
    /\ tlock' = NoOne
    /\ irqOff' = [irqOff EXCEPT ![CpuOf["init"]] = FALSE]
    /\ UNCHANGED << stage, qlock, queueVars, dma, devVars, cfgVars,
                    finishInits, initResult, hist, evTag, irqVars >>

\* line 104: Ok(())
InitReturn ==
    /\ InitStep("i_return", TRUE, "done")
    /\ initResult' = "Ok"
    /\ UNCHANGED << stage, qlock, tlock, irqOff, queueVars, dma, devVars,
                    cfgVars, finishInits, hist, evTag, irqVars >>

\* the device object exists and bring-up is over: other contexts can use it
DeviceReady == "i_drop_transport" \in {initSteps[i] : i \in 1..Len(initSteps)}


(***************************************************************************)
(* The virtqueue and the DMA streams, as the driver uses them.             *)
(***************************************************************************)

\* a DmaStreamSlice: a region, an offset and a length
Slice(region, off, len) == [region |-> region, off |-> off, len |-> len]

\* descriptors one chain takes: one per buffer
ChainDescs(chain) == Len(chain.inputs) + Len(chain.outputs)

\* VirtQueue::add_dma_buf succeeds when the chain's descriptors are free
CanAdd(q, chain) == q.built /\ ChainDescs(chain) <= q.free

AddDmaBuf(q, chain) ==
    [q EXCEPT !.avail = Append(@, chain), !.free = @ - ChainDescs(chain)]

\* VirtQueue::can_pop
CanPop(q) == q.used # << >>

\* VirtQueue::pop_used
PopUsed(q) ==
    [q EXCEPT !.used = Tail(@), !.free = @ + ChainDescs(Head(q.used))]

\* the chains submitted and not yet retrieved
InFlight(q) == {q.avail[i] : i \in 1..Len(q.avail)} \cup {q.used[i] : i \in 1..Len(q.used)}

\* DmaStream::sync of a ToDevice range: the device sees what the processor wrote
SyncToDevice(r, off, len) == [r EXCEPT !.dev = CopyRange(r.dev, r.cpu, off, len)]

\* DmaStream::sync of a FromDevice range: the processor sees what the device wrote
SyncFromDevice(r, off, len) == [r EXCEPT !.cpu = CopyRange(r.cpu, r.dev, off, len)]

(***************************************************************************)
(* SoundDevice::send, step by step, for context c at request stage[c].     *)
(***************************************************************************)

CallerStep(c, from, to) ==
    /\ pc[c] = from
    /\ Runnable(c)
    /\ pc' = [pc EXCEPT ![c] = to]

\* lines 287-290: the request slice, write_val(0, data).unwrap()
SendWrite(c) ==
    LET rq == Requests[stage[c]]
        bytes == RequestBytes(stage[c])
        fits == Len(bytes) <= rq.send_size
    IN  /\ CallerStep(c, "send_write", Unwrap(fits, "send_sync"))
        /\ dma' = IF fits
                  THEN [dma EXCEPT !["ctl_buffer"].cpu = StoreAt(@, 0, bytes)]
                  ELSE dma
        /\ hist' = [hist EXCEPT ![c] =
                      [@ EXCEPT !.txn = stage[c],
                                !.written = IF fits THEN Range(0, Len(bytes)) ELSE {},
                                !.reqSynced = {}, !.evSynced = {}, !.evRead = {},
                                !.hdr = 0, !.data = 0,
                                !.consumed = << >>, !.answered = 0,
                                !.gotTag = << NoOne, 0 >>, !.sendRet = "none"]]
        /\ UNCHANGED << stage, qlock, irqOff, queueVars, devVars, cfgVars,
                        initVars, evTag, irqVars >>

\* a send that submits the request without synchronizing it
SendSyncReq_Skip(c) ==
    /\ CallerStep(c, "send_sync", "send_add")
    /\ UNCHANGED << stage, qlock, irqOff, queueVars, dma, devVars, cfgVars,
                    initVars, hist, evTag, irqVars >>

\* line 291: req_slice.sync().unwrap()
SendSyncReq(c) ==
    LET rq == Requests[stage[c]] IN
    /\ CallerStep(c, "send_sync", "send_add")
    /\ dma' = [dma EXCEPT !["ctl_buffer"] = SyncToDevice(@, 0, rq.send_size)]
    /\ hist' = [hist EXCEPT ![c].reqSynced = Range(0, rq.send_size)]
    /\ UNCHANGED << stage, qlock, irqOff, queueVars, devVars, cfgVars,
                    initVars, evTag, irqVars >>

\* the descriptor chain of the request at stage k of context c
ChainOf(c, k) ==
    [owner |-> c, stage |-> k,
     inputs |-> << Slice("ctl_buffer", 0, Requests[k].send_size) >>,
     outputs |-> << Slice("event_buffer", 0, Requests[k].recv_size) >>]

\* lines 295-303: the response slice, add_dma_buf(..).expect("add queue failed")
SendAdd(c) ==
    LET chain == ChainOf(c, stage[c])
        ok == CanAdd(vq[Q_INDEX], chain)
    IN  /\ CallerStep(c, "send_add", Unwrap(ok, "send_notify"))
        /\ vq' = IF ok THEN [vq EXCEPT ![Q_INDEX] = AddDmaBuf(@, chain)] ELSE vq
        /\ hist' = [hist EXCEPT ![c] =
                      [@ EXCEPT !.advanced = @ \/ hist[c].rejected,
                                !.submitted =
                                    IF ok
                                    THEN Append(@, CodeName(FromLeBytes(SubSeq(
                                             dma["ctl_buffer"].dev, 1, 4))))
                                    ELSE @]]
        /\ UNCHANGED << stage, qlock, irqOff, kicked, needNotify, dma, devVars,
                        cfgVars, initVars, evTag, irqVars >>

\* a send that never rings the doorbell
SendNotify_Never(c) ==
    /\ CallerStep(c, "send_notify", "send_spin")
    /\ UNCHANGED << stage, qlock, irqOff, queueVars, dma, devVars, cfgVars,
                    initVars, hist, evTag, irqVars >>

\* lines 304-306: if queue.should_notify() { queue.notify() }
SendNotify(c) ==
    /\ CallerStep(c, "send_notify", "send_spin")
    /\ kicked' = (kicked \/ needNotify)
    /\ UNCHANGED << stage, qlock, irqOff, vq, needNotify, dma, devVars, cfgVars,
                    initVars, hist, evTag, irqVars >>

\* a send that gives the queue lock up while it waits
SendSpin_Unlock(c) ==
    \/ /\ CanPop(vq[Q_INDEX])
       /\ CallerStep(c, "send_spin", "send_pop")
       /\ UNCHANGED << stage, qlock, irqOff, queueVars, dma, devVars, cfgVars,
                       initVars, hist, evTag, irqVars >>
    \/ /\ pc[c] = "send_spin"
       /\ Runnable(c)
       /\ qlock = c
       /\ qlock' = NoOne
       /\ UNCHANGED << pc, stage, irqOff, queueVars, dma, devVars, cfgVars,
                       initVars, hist, evTag, irqVars >>

\* lines 308-310: while !queue.can_pop() { spin_loop() }
SendSpin(c) ==
    /\ CanPop(vq[Q_INDEX])
    /\ CallerStep(c, "send_spin", "send_pop")
    /\ UNCHANGED << stage, qlock, irqOff, queueVars, dma, devVars, cfgVars,
                    initVars, hist, evTag, irqVars >>

\* a send that returns without retrieving the completed chain
SendPop_Skip(c) ==
    /\ CallerStep(c, "send_pop", "td_sync")
    /\ hist' = [hist EXCEPT ![c].sendRet = "unit"]
    /\ UNCHANGED << stage, qlock, irqOff, queueVars, dma, devVars, cfgVars,
                    initVars, evTag, irqVars >>

\* lines 312-313: queue.pop_used().unwrap(); send returns ()
SendPop(c) ==
    LET ok == CanPop(vq[Q_INDEX]) IN
    /\ CallerStep(c, "send_pop", Unwrap(ok, "td_sync"))
    /\ vq' = IF ok THEN [vq EXCEPT ![Q_INDEX] = PopUsed(@)] ELSE vq
    /\ hist' = [hist EXCEPT ![c].sendRet = IF ok THEN "unit" ELSE @]
    /\ UNCHANGED << stage, qlock, irqOff, kicked, needNotify, dma, devVars,
                    cfgVars, initVars, evTag, irqVars >>


(***************************************************************************)
(* SoundDevice::test_device: take the control queue, then six times send,  *)
(* synchronize the event region and read the response.                     *)
(***************************************************************************)

\* a second context starts once the device is ready
OtherStart ==
    /\ DeviceReady
    /\ CallerStep("other", "idle", "td_disable_irq")
    /\ UNCHANGED << stage, qlock, irqOff, queueVars, dma, devVars, cfgVars,
                    initVars, hist, evTag, irqVars >>

\* line 129: self.queue.disable_irq() ...
TestDeviceDisableIrq(c) ==
    /\ CallerStep(c, "td_disable_irq", "td_lock")
    /\ irqOff' = [irqOff EXCEPT ![CpuOf[c]] = TRUE]
    /\ UNCHANGED << stage, qlock, queueVars, dma, devVars, cfgVars, initVars,
                    hist, evTag, irqVars >>

\* a test_device that goes on without waiting for the lock to be free
TestDeviceLock_NoWait(c) ==
    /\ CallerStep(c, "td_lock", "send_write")
    /\ qlock' = c
    /\ stage' = [stage EXCEPT ![c] = 1]
    /\ hist' = [hist EXCEPT ![c] = NoHist]
    /\ UNCHANGED << irqOff, queueVars, dma, devVars, cfgVars, initVars, evTag,
                    irqVars >>

\* line 129: ... .lock(): spins until the SpinLock is free, then holds it
TestDeviceLock(c) ==
    /\ qlock = NoOne
    /\ CallerStep(c, "td_lock", "send_write")
    /\ qlock' = c
    /\ stage' = [stage EXCEPT ![c] = 1]
    /\ hist' = [hist EXCEPT ![c] = NoHist]
    /\ UNCHANGED << irqOff, queueVars, dma, devVars, cfgVars, initVars, evTag,
                    irqVars >>

\* a test_device that reads the response without synchronizing the window
TestDeviceSync_None(c) ==
    /\ CallerStep(c, "td_sync", "td_read")
    /\ UNCHANGED << stage, qlock, irqOff, queueVars, dma, devVars, cfgVars,
                    initVars, hist, evTag, irqVars >>

\* a test_device that synchronizes a PcmInfo-sized window after every request
TestDeviceSync_WholeInfo(c) ==
    /\ CallerStep(c, "td_sync", "td_read")
    /\ dma' = [dma EXCEPT !["event_buffer"] = SyncFromDevice(@, 0, PCM_INFO_SIZE)]
    /\ evTag' = [evTag EXCEPT !.cpu = evTag.dev]
    /\ hist' = [hist EXCEPT ![c].evSynced = Range(0, PCM_INFO_SIZE)]
    /\ UNCHANGED << stage, qlock, irqOff, queueVars, devVars, cfgVars,
                    initVars, irqVars >>

\* lines 138, 177, 192, 207, 261, 276: self.event_buffer.sync(0..recv).unwrap()
TestDeviceSync(c) ==
    LET rq == Requests[stage[c]] IN
    /\ CallerStep(c, "td_sync", "td_read")
    /\ dma' = [dma EXCEPT !["event_buffer"] = SyncFromDevice(@, 0, rq.recv_size)]
    /\ evTag' = [evTag EXCEPT !.cpu = evTag.dev]
    /\ hist' = [hist EXCEPT ![c].evSynced = Range(0, rq.recv_size)]
    /\ UNCHANGED << stage, qlock, irqOff, queueVars, devVars, cfgVars,
                    initVars, irqVars >>

\* the fields read after the k-th request, in order, with their sizes
ReadPlan(k) ==
    IF Requests[k].name = "PcmInfo"
    THEN << <<"hdr", 4>>, <<"features", 4>>, <<"formats", 8>>, <<"rates", 8>>,
            <<"direction", 1>>, <<"channel_min", 1>>, <<"channel_max", 1>> >>
    ELSE << <<"hdr", 4>>, <<"data", 4>> >>

\* where the i-th `self.event_buffer.reader().unwrap().read_once()` reads:
\* every call builds a new reader, whose cursor is at the start of the region
ReadOffset(plan, i) == 0

\* the value the i-th read yields, as its little-endian bytes
ReadBytes(mem, plan, i) ==
    SubSeq(mem, ReadOffset(plan, i) + 1, ReadOffset(plan, i) + plan[i][2])

\* the offsets of the region that the reads of a plan touch
ReadSet(plan) ==
    UNION {Range(ReadOffset(plan, i), plan[i][2]) : i \in 1..Len(plan)}

\* a test_device that repeats a request the device rejected
TestDeviceRead_Retry(c) ==
    LET k == stage[c]
        plan == ReadPlan(k)
        mem == dma["event_buffer"].cpu
        good == hist[c].answered = Ok
        next == IF good \/ hist[c].rejected THEN k + 1 ELSE k
    IN  /\ CallerStep(c, "td_read",
                      IF next <= NumRequests THEN "send_write" ELSE "td_return")
        /\ stage' = [stage EXCEPT ![c] = IF next <= NumRequests THEN next ELSE k]
        /\ hist' = [hist EXCEPT ![c] =
                      [@ EXCEPT !.evRead = ReadSet(plan),
                                !.hdr = FromLeBytes(ReadBytes(mem, plan, 1)),
                                !.data = FromLeBytes(ReadBytes(mem, plan, 2)),
                                !.gotTag = evTag.cpu,
                                !.rejected = @ \/ ~good]]
        /\ UNCHANGED << qlock, irqOff, queueVars, dma, devVars, cfgVars,
                        initVars, evTag, irqVars >>

\* lines 139-149 and the like: decode and print the response
TestDeviceRead(c) ==
    LET k == stage[c]
        plan == ReadPlan(k)
        mem == dma["event_buffer"].cpu
        good == hist[c].answered = Ok
    IN  /\ CallerStep(c, "td_read",
                      IF k < NumRequests THEN "send_write" ELSE "td_return")
        /\ stage' = [stage EXCEPT ![c] = IF k < NumRequests THEN k + 1 ELSE k]
        /\ hist' = [hist EXCEPT ![c] =
                      [@ EXCEPT !.evRead = ReadSet(plan),
                                !.hdr = FromLeBytes(ReadBytes(mem, plan, 1)),
                                !.data = FromLeBytes(ReadBytes(mem, plan, 2)),
                                !.gotTag = evTag.cpu,
                                !.rejected = IF k >= 2 THEN @ \/ ~good ELSE FALSE,
                                !.okRun = IF k = 2 THEN good
                                          ELSE IF k > 2 THEN @ /\ good
                                          ELSE FALSE]]
        /\ UNCHANGED << qlock, irqOff, queueVars, dma, devVars, cfgVars,
                        initVars, evTag, irqVars >>

\* what stays of a finished run's bookkeeping: how the run went
Summary(h) ==
    [NoHist EXCEPT !.rejected = h.rejected, !.advanced = h.advanced,
                   !.okRun = h.okRun]

\* a test_device that keeps the guard alive past its return
TestDeviceReturn_Leak(c) ==
    /\ CallerStep(c, "td_return", IF c = "init" THEN "i_return" ELSE "done")
    /\ irqOff' = [irqOff EXCEPT ![CpuOf[c]] = FALSE]
    /\ hist' = [hist EXCEPT ![c] = Summary(@)]
    /\ UNCHANGED << stage, qlock, queueVars, dma, devVars, cfgVars, initVars,
                    evTag, irqVars >>

\* line 283: test_device returns; the queue guard is dropped
TestDeviceReturn(c) ==
    /\ CallerStep(c, "td_return", IF c = "init" THEN "i_return" ELSE "done")
    /\ qlock' = NoOne
    /\ irqOff' = [irqOff EXCEPT ![CpuOf[c]] = FALSE]
    /\ hist' = [hist EXCEPT ![c] = Summary(@)]
    /\ UNCHANGED << stage, queueVars, dma, devVars, cfgVars, initVars, evTag,
                    irqVars >>


(***************************************************************************)
(* The device: it serves the control queue and keeps the stream's state.   *)
(***************************************************************************)

\* the stream lifecycle: the state a request leads to, "illegal" if out of order
StreamNext(state, req) ==
    CASE req = "PcmInfo" -> state
      [] req = "PcmSetParams" /\ state = "Uninitialized" -> "ParamsSet"
      [] req = "PcmPrepare" /\ state = "ParamsSet" -> "Prepared"
      [] req = "PcmStart" /\ state = "Prepared" -> "Running"
      [] req = "PcmStop" /\ state = "Running" -> "Prepared"
      [] req = "PcmRelease" /\ state = "Prepared" -> "Uninitialized"
      [] OTHER -> "illegal"

\* the status codes the device may answer a request with
DeviceStatuses(state, req) ==
    IF StreamNext(state, req) = "illegal" THEN {BadMsg} ELSE {Ok, NotSupp}

\* stream descriptions a device may report
InfoChoices ==
    { [features |-> 0, formats |-> 16, rates |-> 8, direction |-> 0,
       channels_min |-> 1, channels_max |-> 2],
      [features |-> 4, formats |-> 16, rates |-> 8, direction |-> 0,
       channels_min |-> 1, channels_max |-> 2] }

\* every status code a response may carry
StatusCodes == {Ok, BadMsg, NotSupp, IoErr}

\* the PcmInfo responses: a status and a stream description, as a record
InfoResponses ==
    { [status |-> status, info |-> info,
       bytes |-> PodBytes(SndPcmInfo,
                          [hdr |-> status, features |-> info.features,
                           formats |-> info.formats, rates |-> info.rates,
                           direction |-> info.direction,
                           channels_min |-> info.channels_min,
                           channels_max |-> info.channels_max, padding |-> 0])] :
        status \in StatusCodes, info \in InfoChoices }

\* the other responses: the status word and a reserved word
StatusResponses ==
    { [status |-> status, bytes |-> ToLeBytes(status, 4) \o ToLeBytes(0, 4)] :
        status \in StatusCodes }

\* the response record the device produces
ResponseBytes(req, status, info) ==
    IF req = "PcmInfo"
    THEN (CHOOSE r \in InfoResponses : r.status = status /\ r.info = info).bytes
    ELSE (CHOOSE r \in StatusResponses : r.status = status).bytes

Min(a, b) == IF a <= b THEN a ELSE b

\* the device takes the oldest available chain of the control queue, reads the
\* request from the chain's readable buffer, writes its response into the
\* chain's writable buffer and returns the chain as used
DeviceProcess ==
    /\ ~Panicked
    /\ vq[Q_INDEX].avail # << >>
    /\ kicked \/ ~needNotify
    /\ LET chain == Head(vq[Q_INDEX].avail)
           in == chain.inputs[1]
           out == chain.outputs[1]
           reqBytes == SubSeq(dma[in.region].dev, in.off + 1, in.off + in.len)
           req == CodeName(FromLeBytes(SubSeq(reqBytes, 1, 4)))
       IN  \E status \in DeviceStatuses(stream, req) :
           \E info \in (IF req = "PcmInfo" THEN InfoChoices
                        ELSE {CHOOSE i \in InfoChoices : TRUE}) :
               LET full == ResponseBytes(req, status, info)
                   resp == SubSeq(full, 1, Min(Len(full), out.len))
               IN  /\ dma' = [dma EXCEPT ![out.region].dev = StoreAt(@, out.off, resp)]
                   /\ evTag' = [evTag EXCEPT !.dev = << chain.owner, chain.stage >>]
                   /\ stream' = IF status = Ok
                                THEN StreamNext(stream, req) ELSE stream
                   /\ vq' = [vq EXCEPT ![Q_INDEX] =
                               [@ EXCEPT !.avail = Tail(@), !.used = Append(@, chain)]]
                   /\ kicked' = FALSE
                   /\ hist' = [hist EXCEPT ![chain.owner] =
                                 [@ EXCEPT !.consumed = reqBytes,
                                           !.answered = status]]
    /\ UNCHANGED << pc, stage, qlock, irqOff, needNotify, cfgVars, initVars,
                    irqVars >>

(***************************************************************************)
(* SoundDevice::handle_event_irq, run in interrupt context on a CPU whose  *)
(* local interrupts are enabled.  It is a public method that init does not *)
(* register as a queue callback: it runs whenever its caller delivers an   *)
(* event for the device, at any time once the device is set up.            *)
(***************************************************************************)

\* a handler that takes the control queue's lock and consumes a completed chain
HandleEventIrq_Locking(p) ==
    /\ ~Panicked
    /\ DeviceReady
    /\ ~irqOff[p]
    /\ qlock = NoOne
    /\ dma' = [dma EXCEPT !["event_buffer"] = SyncFromDevice(@, 0, PCM_INFO_SIZE)]
    /\ evTag' = [evTag EXCEPT !.cpu = evTag.dev]
    /\ irqLast' = [region |-> "event_buffer",
                   range |-> ReadSet(ReadPlan(1)),
                   inflight |-> {ch.outputs[1] : ch \in InFlight(vq[Q_INDEX])}]
    /\ vq' = IF CanPop(vq[Q_INDEX])
             THEN [vq EXCEPT ![Q_INDEX] = PopUsed(@)] ELSE vq
    /\ UNCHANGED << pc, stage, qlock, irqOff, kicked, needNotify, devVars,
                    cfgVars, initVars, hist >>

\* lines 107-120: synchronize a PcmInfo-sized window of the event region,
\* read seven fields from it and log the first
HandleEventIrq(p) ==
    /\ ~Panicked
    /\ DeviceReady
    /\ ~irqOff[p]
    /\ dma' = [dma EXCEPT !["event_buffer"] = SyncFromDevice(@, 0, PCM_INFO_SIZE)]
    /\ evTag' = [evTag EXCEPT !.cpu = evTag.dev]
    /\ irqLast' = [region |-> "event_buffer",
                   range |-> ReadSet(ReadPlan(1)),
                   inflight |-> {ch.outputs[1] : ch \in InFlight(vq[Q_INDEX])}]
    /\ UNCHANGED << pc, stage, qlock, irqOff, queueVars, devVars, cfgVars,
                    initVars, hist >>

\* a receive handler that hands the device a buffer of the receive region
HandleRxIrq_Refill(p) ==
    LET chain == [owner |-> NoOne, stage |-> 0, inputs |-> << >>,
                  outputs |-> << Slice("rx_buffer", 0, STATUS_RESP_SIZE) >>]
    IN  /\ ~Panicked
        /\ DeviceReady
        /\ ~irqOff[p]
        /\ CanAdd(vq[RXQ_INDEX], chain)
        /\ vq' = [vq EXCEPT ![RXQ_INDEX] = AddDmaBuf(@, chain)]
        /\ UNCHANGED << pc, stage, qlock, tlock, irqOff, kicked, needNotify, dma,
                        stream, cfgVars, initSteps, failed, finishInits,
                        initResult, hist, evTag, irqLast >>

\* lines 123-125: handle_rx_irq has an empty body
HandleRxIrq(p) ==
    /\ ~Panicked
    /\ DeviceReady
    /\ ~irqOff[p]
    /\ UNCHANGED vars

(***************************************************************************)
(* The driver with its device.                                             *)
(***************************************************************************)

Next ==
    \/ InitReadConfig
    \/ \E i \in QueueIndices : InitQueue(i)
    \/ \E k \in 1..Len(DmaPlan) : InitDma(k)
    \/ InitDevice
    \/ InitTransportLock
    \/ InitRegister
    \/ InitFinish
    \/ InitDrop
    \/ InitReturn
    \/ OtherStart
    \/ \E c \in Callers : TestDeviceDisableIrq(c)
    \/ \E c \in Callers : TestDeviceLock(c)
    \/ \E c \in Callers : SendWrite(c)
    \/ \E c \in Callers : SendSyncReq(c)
    \/ \E c \in Callers : SendAdd(c)
    \/ \E c \in Callers : SendNotify(c)
    \/ \E c \in Callers : SendSpin(c)
    \/ \E c \in Callers : SendPop(c)
    \/ \E c \in Callers : TestDeviceSync(c)
    \/ \E c \in Callers : TestDeviceRead(c)
    \/ \E c \in Callers : TestDeviceReturn(c)
    \/ DeviceProcess
    \/ \E p \in CPUs : HandleEventIrq(p)
    \/ \E p \in CPUs : HandleRxIrq(p)

Spec == Init /\ [][Next]_vars


(***************************************************************************)
(* The driver under a fair scheduler and a device that serves its queue:   *)
(* a thread that can run does run, the handler returns, and the device     *)
(* completes the chains it is given.                                       *)
(***************************************************************************)

InitThread ==
    \/ InitReadConfig
    \/ \E i \in QueueIndices : InitQueue(i)
    \/ \E k \in 1..Len(DmaPlan) : InitDma(k)
    \/ InitDevice
    \/ InitTransportLock
    \/ InitRegister
    \/ InitFinish
    \/ InitDrop
    \/ InitReturn

TestDeviceThread(c) ==
    \/ TestDeviceDisableIrq(c)
    \/ TestDeviceLock(c)
    \/ SendWrite(c)
    \/ SendSyncReq(c)
    \/ SendAdd(c)
    \/ SendNotify(c)
    \/ SendSpin(c)
    \/ SendPop(c)
    \/ TestDeviceSync(c)
    \/ TestDeviceRead(c)
    \/ TestDeviceReturn(c)

Fairness ==
    /\ WF_vars(InitThread)
    /\ \A c \in Callers : WF_vars(TestDeviceThread(c))
    /\ WF_vars(DeviceProcess)

LiveSpec == Init /\ [][Next]_vars /\ Fairness

(***************************************************************************)
(* The config reader on its own: the read of bring-up, further reads on    *)
(* the same ConfigManager, and a device whose configuration may change.    *)
(***************************************************************************)

\* how many read_config calls a run makes
MaxReads == 3

\* a further read_config call, after the one of bring-up
ReadConfigAgain ==
    /\ ~Panicked
    /\ nReads >= 1
    /\ nReads < MaxReads
    /\ \E failAt \in 0..Len(ConfigFields) :
           /\ DoReadConfig(ReadConfig(cfgMem, failAt))
           /\ pc' = [pc EXCEPT !["init"] = Unwrap(failAt = 0, @)]
    /\ UNCHANGED << stage, qlock, irqOff, queueVars, dma, devVars, initVars,
                    hist, evTag, irqVars >>

\* the device changes its capability counts
DeviceConfigChange ==
    /\ ~Panicked
    /\ \E m \in AllCfgMem \ {cfgMem} : cfgMem' = m
    /\ cfgDirty' = TRUE
    /\ UNCHANGED << pc, stage, qlock, irqOff, queueVars, dma, devVars, initVars,
                    config, prevConfig, cfgReads, cfgSame, nReads,
                    hist, evTag, irqVars >>

InitCfg ==
    /\ InitCommon
    /\ cfgMem \in AllCfgMem

NextCfg ==
    \/ InitReadConfig
    \/ ReadConfigAgain
    \/ DeviceConfigChange

SpecCfg == InitCfg /\ [][NextCfg]_vars


(***************************************************************************)
(* Properties.                                                             *)
(***************************************************************************)

\* the positions inside send
InSend == {"send_write", "send_sync", "send_add", "send_notify", "send_spin", "send_pop"}

\* the positions of send between submission and retrieval of the chain
Submitted == {"send_notify", "send_spin", "send_pop"}

Finished == {"i_return", "done"}

\* C1: at most one control transaction is in flight: whoever is inside send
\* holds the control queue's lock, from the write of the request until the
\* completed chain is retrieved, so no two contexts are inside send at once
\* and the queue never holds more than the one chain of the context in send.
C1_OneTransactionInFlight ==
    /\ Cardinality({c \in Callers : pc[c] \in InSend}) <= 1
    /\ \A c \in Callers : pc[c] \in InSend => qlock = c
    /\ Cardinality(InFlight(vq[Q_INDEX])) <= 1
    /\ Len(vq[Q_INDEX].avail) + Len(vq[Q_INDEX].used) <= 1
    /\ \A ch \in InFlight(vq[Q_INDEX]) :
           pc[ch.owner] \in Submitted /\ stage[ch.owner] = ch.stage

\* a transaction is in flight while the other context waits for the lock
C1_Witness ==
    \E c, d \in Callers :
        /\ c # d
        /\ pc[c] = "send_spin"
        /\ vq[Q_INDEX].avail # << >>
        /\ pc[d] = "td_lock"

\* C2: with two contexts issuing transactions, the device consumes for each
\* transaction exactly the request bytes its issuer wrote, and each issuer
\* reads the response that the device produced for that very transaction.
C2_OwnResponse ==
    \A c \in Callers :
        LET h == hist[c] IN
        /\ h.consumed # << >> => h.consumed = RequestBytes(h.txn)
        /\ h.gotTag # << NoOne, 0 >> => h.gotTag = << c, h.txn >>
        /\ h.hdr # 0 => h.hdr = h.answered

\* a context has read the response to its own second request while the
\* other context waits for the queue
C2_Witness ==
    /\ hist["other"].gotTag = << "other", 2 >>
    /\ hist["other"].hdr = hist["other"].answered
    /\ pc["init"] = "td_lock"

\* C3 (as claimed): a send whose response carries a status other than Ok
\* gives its caller an error, never plain success.
C3_RejectionSurfaced ==
    \A c \in Callers :
        (hist[c].sendRet # "none" /\ hist[c].answered # Ok)
            => hist[c].sendRet = "Err"

\* C4 (as claimed): once a lifecycle request has been answered with a status
\* other than Ok, the context submits no further request of that run.
C4_NoAdvanceAfterRejection ==
    \A c \in Callers : ~hist[c].advanced

\* C5: when a run's SetParams, Prepare, Start, Stop and Release were all
\* answered Ok, the stream is Uninitialized again and nothing is left behind:
\* no chain is outstanding on the control queue, all its descriptors are free,
\* the queues and regions are still there, the lock is free once the run has
\* returned, and no transaction ever fails for lack of a descriptor.
C5_CleanAfterSession ==
    /\ \A c \in Callers :
           /\ (pc[c] = "td_return" /\ hist[c].okRun) =>
                  /\ stream = "Uninitialized"
                  /\ InFlight(vq[Q_INDEX]) = {}
                  /\ \A i \in QueueIndices : vq[i].built /\ vq[i].free = vq[i].size
                  /\ \A r \in Regions : dma[r].mapped
           /\ pc[c] \in Finished => qlock # c
           /\ pc[c] = "panicked" => failed # "none"
    /\ (\A c \in Callers : pc[c] \in Finished \cup {"idle"}) => qlock = NoOne

\* a second all-Ok run has ended after a first all-Ok run returned
C5_Witness ==
    \E c, d \in Callers :
        /\ c # d
        /\ pc[c] \in Finished /\ hist[c].okRun
        /\ pc[d] = "td_return" /\ hist[d].okRun

\* the two byte ranges of two slices meet
Overlap(region1, range1, region2, range2) ==
    region1 = region2 /\ range1 \cap range2 # {}

\* C6 (as claimed): the bytes the event handler reads are never bytes of the
\* response window of a control transaction in flight.
C6_EventPathIndependent ==
    \A w \in irqLast.inflight :
        ~Overlap(irqLast.region, irqLast.range, w.region, Range(w.off, w.len))

\* C7: send returns only after the device completed its chain, and, with a
\* device that completes what it is given, every send returns and every run of
\* test_device ends with the lock released.
C7_RunsToCompletion ==
    /\ [](\A c \in Callers : hist[c].sendRet = "unit" => hist[c].answered # 0)
    /\ [](\A c \in Callers : pc[c] \in Finished => qlock # c)
    /\ \A c \in Callers : (pc[c] \in InSend) ~> (pc[c] = "td_sync")
    /\ \A c \in Callers : (pc[c] = "td_lock") ~> (pc[c] \in Finished)

\* both runs have ended and the lock is free
C7_Witness ==
    /\ \A c \in Callers : pc[c] \in Finished
    /\ qlock = NoOne

\* C8: when a bring-up step fails, init stops there: the failed step is the
\* last one executed, init does not return Ok, the device never becomes
\* usable, finish_init is not called and no control transaction is made; a
\* failed configuration read is followed by no queue construction.
C8_FailedBringUp ==
    failed # "none" =>
        /\ pc["init"] = "panicked"
        /\ initSteps # << >> /\ initSteps[Len(initSteps)] = failed
        /\ initResult # "Ok"
        /\ ~DeviceReady
        /\ finishInits = 0
        /\ \A c \in Callers : stage[c] = 0
        /\ \A i \in QueueIndices : vq[i].avail = << >> /\ vq[i].used = << >>
        /\ failed = "i_read_config" => \A i \in QueueIndices : ~vq[i].built

\* the mapping of the control region failed, after the queues were built
C8_Witness ==
    /\ failed = "i_ctl_buffer"
    /\ \A i \in QueueIndices : vq[i].built
    /\ pc["init"] = "panicked"

\* the four offsets of the capability fields
ConfigOffsets == << 0, 4, 8, 12 >>

C9_Inv ==
    /\ cfgReads = SubSeq(ConfigOffsets, 1, Len(cfgReads))
    /\ (config.valid /\ prevConfig.valid /\ cfgSame) => config = prevConfig
    /\ (config.valid /\ ~cfgDirty) =>
           /\ config.jacks = FromLeBytes(SubSeq(cfgMem, 1, 4))
           /\ config.streams = FromLeBytes(SubSeq(cfgMem, 5, 8))
           /\ config.chmaps = FromLeBytes(SubSeq(cfgMem, 9, 12))
           /\ config.controls = FromLeBytes(SubSeq(cfgMem, 13, 16))

\* C9: read_config reads at offsets 0, 4, 8 and 12 in that order, each field
\* is the word of configuration memory at its offset, a call changes nothing
\* but the reader's own result, and two consecutive calls between which the
\* device did not change return the same four values.
C9_ReadConfigIdempotent ==
    /\ []C9_Inv
    /\ [][nReads' # nReads =>
             UNCHANGED << cfgMem, queueVars, dma, devVars, qlock, tlock, irqOff,
                          stage, finishInits >>]_vars

\* two reads of an unchanged device whose counts differ from field to field
C9_Witness ==
    /\ nReads >= 2
    /\ config.valid /\ prevConfig.valid /\ cfgSame /\ ~cfgDirty
    /\ config.jacks # config.streams
    /\ config.chmaps # config.controls

\* C10 (as claimed): a transaction writes exactly the bytes [0, S) of the
\* control region and reads exactly the bytes [0, R) of the event region.
C10_ExactBytes ==
    \A c \in Callers :
        LET h == hist[c] IN
        h.evRead # {} =>
            /\ h.written = Range(0, Requests[h.txn].send_size)
            /\ h.evRead = Range(0, Requests[h.txn].recv_size)

\* C10 (amended): a transaction writes and synchronizes exactly the bytes
\* [0, S) of the control region, hands the device exactly [0, S) and [0, R) as
\* request and response buffers, synchronizes exactly the bytes [0, R) of the
\* event region, and every byte it then reads lies within [0, R).
C10_ExactWindow ==
    /\ \A c \in Callers :
           LET h == hist[c]
           IN  h.txn # 0 =>
                   LET rq == Requests[h.txn] IN
                   /\ h.written # {} => h.written = Range(0, rq.send_size)
                   /\ h.reqSynced # {} => h.reqSynced = Range(0, rq.send_size)
                   /\ h.evSynced # {} => h.evSynced = Range(0, rq.recv_size)
                   /\ h.evRead \subseteq Range(0, rq.recv_size)
                   /\ h.evRead # {} => h.evRead \subseteq h.evSynced
    /\ \A ch \in InFlight(vq[Q_INDEX]) :
           /\ ch.inputs = << Slice("ctl_buffer", 0, Requests[ch.stage].send_size) >>
           /\ ch.outputs = << Slice("event_buffer", 0, Requests[ch.stage].recv_size) >>

\* a status response was read: 8 bytes synchronized, the first 4 read
C10_Witness ==
    \E c \in Callers :
        /\ hist[c].txn = 2
        /\ hist[c].written = Range(0, PCM_SET_PARAMS_SIZE)
        /\ hist[c].evSynced = Range(0, STATUS_RESP_SIZE)
        /\ hist[c].evRead = Range(0, 4)


\* the SetParams record of test_device, field by field in declared order:
\* hdr = 0x0101, buffer_bytes = 1, period_bytes = 1, features = 0,
\* channels = 0, format = 4, rate = 3, five padding bytes
SetParamsRecord ==
    << 1, 1, 0, 0 >> \o << 1, 0, 0, 0 >> \o << 1, 0, 0, 0 >> \o << 0, 0, 0, 0 >>
        \o << 0 >> \o << 4 >> \o << 3 >> \o << 0, 0, 0, 0, 0 >>

\* C11 (as claimed): the SetParams request with format FmtU8, rate Rate16000
\* and channels 0 is written as, and reaches the device as, a record of
\* exactly 20 bytes.
C11_SetParams20Bytes ==
    \A c \in Callers :
        hist[c].txn = 2 =>
            /\ hist[c].written = Range(0, 20)
            /\ hist[c].consumed # << >> => Len(hist[c].consumed) = 20

\* C11 (amended): that request is written as, and reaches the device as, a
\* record of exactly 24 bytes: the fields in declared order at offsets 0, 4,
\* 8, 12, 16, 17 and 18, format 4 and rate 3, then five zero padding bytes.
C11_SetParams24Bytes ==
    \A c \in Callers :
        hist[c].txn = 2 =>
            /\ hist[c].written = Range(0, 24)
            /\ SubSeq(dma["ctl_buffer"].cpu, 1, 24) = SetParamsRecord
            /\ hist[c].consumed # << >> => hist[c].consumed = SetParamsRecord

\* the device has consumed the SetParams record
C11_Witness ==
    \E c \in Callers :
        /\ hist[c].txn = 2
        /\ hist[c].consumed = SetParamsRecord
        /\ Len(hist[c].consumed) = 24


\* the control requests of one run, in order
LifecycleOrder ==
    << "PcmInfo", "PcmSetParams", "PcmPrepare", "PcmStart", "PcmStop", "PcmRelease" >>

\* C12: the requests a run has submitted are always a prefix of PcmInfo,
\* SetParams, Prepare, Start, Stop, Release, the run ends having submitted
\* exactly these six, once each, and a request is submitted only when no
\* chain is outstanding on the control queue.
C12_RequestOrder ==
    /\ [](\A c \in Callers :
             /\ Len(hist[c].submitted) <= Len(LifecycleOrder)
             /\ hist[c].submitted = SubSeq(LifecycleOrder, 1, Len(hist[c].submitted))
             /\ pc[c] = "td_return" => hist[c].submitted = LifecycleOrder)
    /\ [][\A c \in Callers :
             Len(hist'[c].submitted) > Len(hist[c].submitted)
                 => InFlight(vq[Q_INDEX]) = {}]_vars

\* a run has ended after six submissions although the device rejected one
C12_Witness ==
    \E c \in Callers :
        /\ pc[c] = "td_return"
        /\ hist[c].submitted = LifecycleOrder
        /\ hist[c].rejected


\* C13: a chain on the control queue is one request buffer and one response
\* buffer whose request bytes [0, S) were written and then synchronized, so
\* that the device's view of them is the request; a range is synchronized
\* only after it was written; and the doorbell is rung only when a chain was
\* submitted and the queue asked for notification.
C13_RequestSideOrdered ==
    /\ \A ch \in InFlight(vq[Q_INDEX]) :
           LET h == hist[ch.owner]
               S == Requests[ch.stage].send_size
           IN  /\ Len(ch.inputs) = 1 /\ Len(ch.outputs) = 1
               /\ h.txn = ch.stage
               /\ h.written = Range(0, S)
               /\ h.reqSynced = Range(0, S)
               /\ SubSeq(dma["ctl_buffer"].dev, 1, S) = RequestBytes(ch.stage)
    /\ \A c \in Callers : hist[c].reqSynced # {} => hist[c].reqSynced = hist[c].written
    /\ \A c \in Callers : pc[c] \in {"send_write", "send_sync", "send_add"} =>
           \A ch \in InFlight(vq[Q_INDEX]) : ch.owner # c
    /\ kicked => (needNotify /\ vq[Q_INDEX].avail # << >>)

\* the doorbell was rung for a submitted chain the device has not taken yet
C13_Witness ==
    /\ kicked
    /\ vq[Q_INDEX].avail # << >>
    /\ \E c \in Callers : pc[c] = "send_spin" /\ hist[c].txn = 3


\* C14 (as claimed): once send has returned, the response window [0, R) of
\* the event region has been synchronized.
C14_SyncedAtReturn ==
    \A c \in Callers :
        hist[c].sendRet = "unit" =>
            hist[c].evSynced = Range(0, Requests[hist[c].txn].recv_size)

\* C14 (amended): once send has returned, the device has completed the chain
\* and the chain has been retrieved; the caller synchronizes the window
\* [0, R) only after that and before it reads, so that whenever a response
\* is read the processor's view of the window is the device's, and the status
\* read is the one the device wrote.
C14_SyncedBeforeRead ==
    \A c \in Callers :
        LET h == hist[c] IN
        /\ h.sendRet = "unit" =>
               /\ h.answered # 0
               /\ \A ch \in InFlight(vq[Q_INDEX]) : ch.owner # c
        /\ h.evSynced # {} => h.sendRet = "unit"
        /\ (pc[c] = "td_read" \/ h.evRead # {}) =>
               /\ h.sendRet = "unit"
               /\ h.evSynced = Range(0, Requests[h.txn].recv_size)
        /\ pc[c] = "td_read" =>
               SubSeq(dma["event_buffer"].cpu, 1, Requests[h.txn].recv_size)
                   = SubSeq(dma["event_buffer"].dev, 1, Requests[h.txn].recv_size)
        /\ h.evRead # {} => h.hdr = h.answered

\* the PcmInfo response was read, after send returned and the window was
\* synchronized
C14_Witness ==
    \E c \in Callers :
        /\ hist[c].txn = 1
        /\ hist[c].sendRet = "unit"
        /\ hist[c].evSynced = Range(0, PCM_INFO_SIZE)
        /\ hist[c].evRead # {}
        /\ hist[c].hdr = Ok


\* C15 (as claimed): the first value decoded from a response is the word the
\* device wrote at bytes 0..4 and the second (features of a PcmInfo response,
\* the reserved word of a status response) is the word it wrote at bytes 4..8.
C15_DecodedAtOffsets ==
    \A c \in Callers :
        hist[c].evRead # {} =>
            /\ hist[c].hdr = FromLeBytes(SubSeq(dma["event_buffer"].dev, 1, 4))
            /\ hist[c].data = FromLeBytes(SubSeq(dma["event_buffer"].dev, 5, 8))


\* C16: the event handler can run whenever interrupts are enabled on its
\* CPU, whoever holds the control queue's lock (it waits for nothing), and a
\* run of it leaves the positions of all contexts, both locks, the three
\* queues, the doorbell and the device's view of every DMA region unchanged:
\* it only refreshes the processor's view of the event region.
C16_HandlerNeverBlocks ==
    /\ [](\A p \in CPUs :
             (DeviceReady /\ ~Panicked /\ ~irqOff[p]) => ENABLED HandleEventIrq(p))
    /\ [][(\E p \in CPUs : HandleEventIrq(p)) =>
             /\ UNCHANGED << pc, stage, qlock, tlock, irqOff, queueVars, devVars >>
             /\ \A r \in Regions :
                    /\ dma'[r].dev = dma[r].dev
                    /\ r # "event_buffer" => dma'[r] = dma[r]]_vars

\* the handler ran while a context held the queue lock with a chain in flight
C16_Witness ==
    /\ irqLast.region = "event_buffer"
    /\ irqLast.inflight # {}
    /\ qlock # NoOne
    /\ \E c \in Callers : pc[c] = "send_spin"


\* the steps of bring-up, in order
BringUpOrder ==
    << "i_read_config", "i_queue0", "i_queue1", "i_queue2",
       "i_tx_buffer", "i_rx_buffer", "i_ctl_buffer", "i_event_buffer",
       "i_device", "i_transport_lock", "i_register", "i_finish_init",
       "i_drop_transport", "i_return" >>

\* the bring-up step has been executed
Done(step) == \E i \in 1..Len(initSteps) : initSteps[i] = step

\* C17: the steps of bring-up executed so far are a prefix of: read the
\* configuration, build queues 0, 1, 2, map the four regions, register the
\* callback, finish_init; each queue has the size given and is built only
\* after the configuration was read; finish_init is called once, and not
\* before the callback is registered; no context starts a transaction before
\* finish_init; and the queue lock is never held together with the
\* transport lock.
C17_BringUpOrder ==
    /\ Len(initSteps) <= Len(BringUpOrder)
    /\ initSteps = SubSeq(BringUpOrder, 1, Len(initSteps))
    /\ \A i \in QueueIndices :
           vq[i].built => (config.valid /\ vq[i].size = QUEUE_SIZE)
    /\ vq[TXQ_INDEX].built => vq[Q_INDEX].built
    /\ vq[RXQ_INDEX].built => vq[TXQ_INDEX].built
    /\ \A r \in Regions : dma[r].mapped => \A i \in QueueIndices : vq[i].built
    /\ finishInits = (IF Done("i_finish_init") THEN 1 ELSE 0)
    /\ finishInits = 1 => (Done("i_register") /\ \A r \in Regions : dma[r].mapped)
    /\ \A c \in Callers :
           (stage[c] > 0 \/ pc[c] \in InSend \/ qlock = c) => finishInits = 1
    /\ \A i \in QueueIndices : InFlight(vq[i]) # {} => finishInits = 1
    /\ qlock # NoOne => tlock = NoOne

\* init has returned Ok after a complete bring-up and a run of test_device
C17_Witness ==
    /\ initResult = "Ok"
    /\ initSteps = BringUpOrder
    /\ finishInits = 1
    /\ tlock = NoOne


\* the five wire records
WireRecords ==
    { SndPcmQueryInfo, SndPcmInfo, SndPcmSetParams, SndPcmHdr, SndPcmIOMessage }

RECURSIVE FieldSum(_, _)
\* the sum of the sizes of the first k declared fields
FieldSum(layout, k) ==
    IF k = 0 THEN 0 ELSE FieldSum(layout, k - 1) + layout[k].size

\* C18 (as claimed): every wire record is as large as the sum of its declared
\* fields, every field lies right after the previous one, the size constants
\* are those sums, and every request written is as long as that sum.
C18_NoImplicitPadding ==
    /\ \A layout \in WireRecords :
           /\ SizeOf(layout) = FieldSum(layout, Len(layout))
           /\ \A i \in 1..Len(layout) :
                  OffsetOf(layout, layout[i].name) = FieldSum(layout, i - 1)
    /\ PCM_INFO_QUERY_SIZE = FieldSum(SndPcmQueryInfo, Len(SndPcmQueryInfo))
    /\ PCM_INFO_SIZE = FieldSum(SndPcmInfo, Len(SndPcmInfo))
    /\ PCM_SET_PARAMS_SIZE = FieldSum(SndPcmSetParams, Len(SndPcmSetParams))
    /\ PCM_HDR_SIZE = FieldSum(SndPcmHdr, Len(SndPcmHdr))
    /\ \A c \in Callers :
           hist[c].written # {} =>
               LET layout == Requests[hist[c].txn].layout
               IN  hist[c].written = Range(0, FieldSum(layout, Len(layout)))


\* the transmit and receive queues and regions
DataQueues == {TXQ_INDEX, RXQ_INDEX}
DataRegions == {"tx_buffer", "rx_buffer"}

\* C19: once the device is set up, the transmit and receive queues hold no
\* chain and have all their descriptors free, the transmit and receive
\* regions hold the bytes they were allocated with, no chain on the control
\* queue names a data region, the handlers read no data region, and no step
\* changes a data queue or a data region.
C19_DataPathUntouched ==
    /\ [](DeviceReady =>
             /\ \A i \in DataQueues :
                    /\ vq[i].avail = << >> /\ vq[i].used = << >>
                    /\ vq[i].free = vq[i].size
             /\ \A r \in DataRegions : dma[r].cpu = Zeros /\ dma[r].dev = Zeros
             /\ \A ch \in InFlight(vq[Q_INDEX]) :
                    \A i \in 1..Len(ch.inputs \o ch.outputs) :
                        (ch.inputs \o ch.outputs)[i].region \notin DataRegions
             /\ irqLast.region \notin DataRegions)
    /\ [][DeviceReady =>
             /\ \A i \in DataQueues : vq'[i] = vq[i]
             /\ \A r \in DataRegions : dma'[r] = dma[r]]_vars

\* both runs of test_device have ended and the event handler has run, with
\* the data queues and regions as bring-up left them
C19_Witness ==
    /\ \A c \in Callers : pc[c] = "done"
    /\ irqLast.region = "event_buffer"
    /\ \A i \in DataQueues : vq[i].built /\ vq[i].free = QUEUE_SIZE
    /\ \A r \in DataRegions : dma[r].mapped /\ dma[r].dev = Zeros


\* the descriptors of a queue that are in use
InUse(q) == q.size - q.free

\* C20: the control queue has two descriptors, every chain on it takes two,
\* the descriptors in use are none or both, none is in use when a context
\* begins a transaction or is outside send, and add_dma_buf never fails: the
\* only panics are those of bring-up.
C20_SubmissionNeverFails ==
    /\ vq[Q_INDEX].built =>
           /\ vq[Q_INDEX].size = 2
           /\ InUse(vq[Q_INDEX]) \in {0, 2}
           /\ InUse(vq[Q_INDEX]) = 2 * Cardinality(InFlight(vq[Q_INDEX]))
    /\ \A ch \in InFlight(vq[Q_INDEX]) : ChainDescs(ch) = 2
    /\ \A c \in Callers :
           /\ pc[c] \in {"send_write", "send_sync", "send_add"} =>
                  /\ InUse(vq[Q_INDEX]) = 0
                  /\ CanAdd(vq[Q_INDEX], ChainOf(c, stage[c]))
           /\ pc[c] \in {"td_sync", "td_read", "td_return"} => InUse(vq[Q_INDEX]) = 0
           /\ pc[c] = "panicked" => (c = "init" /\ failed # "none" /\ stage[c] = 0)

\* the sixth transaction of a run has both descriptors in use
C20_Witness ==
    \E c \in Callers :
        /\ pc[c] = "send_spin"
        /\ stage[c] = NumRequests
        /\ InUse(vq[Q_INDEX]) = 2

====
